---- MODULE Spec2Model ----
(***************************************************************************)
(* One pipeline run of the Gemini CSV analyzer: an inbound GET request on  *)
(* one of the six task routes is followed from the CSV load to the         *)
(* response, with the Gemini service as a stub that may answer anything.   *)
(*                                                                         *)
(* Strings are sequences of one-character strings (<<"a","b">> is "ab");   *)
(* UNDEFINED stands for the JavaScript value undefined.  A CSV cell whose  *)
(* content is never inspected by the code is kept as its length only.      *)
(***************************************************************************)
EXTENDS Integers, Sequences, FiniteSets, TLC

VARIABLES
    route,          \* the task route the request hit
    fileExists,     \* whether ./India.csv exists
    fileRows,       \* the data rows of ./India.csv
    queryLang,      \* req.query.lang
    startingIndex,  \* parseCsv's startingIndex argument
    maxRows,        \* parseCsv's maxRows argument
    pc,             \* where the handler is suspended
    rows,           \* rows read by the loader
    sampleRows,     \* the sampled window
    estimatedTokens,\* the analyze route's token estimate (0 before it is computed)
    genCalls,       \* generateContent calls issued for the primary analysis
    parsed,         \* the JSON.parse'd generation result
    fields,         \* the text fields handed to translateText, in order
    results,        \* the translated fields, by original index
    pending,        \* indices of translateText calls in flight
    outcomes,       \* the service's answer to each field's call (kind "none": no call)
    outOfOrder,     \* whether some call settled while an earlier field's was in flight
    genReply,       \* the service's answer to the primary generateContent call
    transCalls,     \* generateContent calls issued by translateText
    fieldCalls,     \* generateContent calls issued by translateText, per field
    responses       \* the responses sent to the caller, in order

vars == <<route, fileExists, fileRows, queryLang, startingIndex, maxRows, pc, rows,
          sampleRows, estimatedTokens, genCalls, parsed, fields, results, pending,
          outcomes, outOfOrder, genReply, transCalls, fieldCalls, responses>>

----------------------------------------------------------------------------
\* Bounds of the model

MaxDataRows == 2
SmallLen == 3
BigLen == 8000000
MaxItems == 3
MaxTrends == 1
MaxSentiments == 2
MaxOffset == 3
MaxWindow == 3

----------------------------------------------------------------------------
\* Program constants

START_INDEX == 0
MAX_ROWS == 100
AnalyzeMaxRows == 1000
MAX_TOKENS == 2000000
TokenBuffer == 500
CharsPerToken == 4

Routes == {"analyze", "count", "multi", "trends", "insights", "summary"}

----------------------------------------------------------------------------
\* Strings

UNDEFINED == <<"undefined">>
EmptyStr == <<>>
English == <<"e", "n", "g", "l", "i", "s", "h">>
Hindi == <<"h", "i", "n", "d", "i">>

Langs ==
    { UNDEFINED, EmptyStr, English, Hindi,
      <<"E", "n", "g", "l", "i", "s", "h">>,
      <<"E", "N", "G", "L", "I", "S", "H">> }

LowerChar(c) ==
    CASE c = "E" -> "e"
      [] c = "N" -> "n"
      [] c = "G" -> "g"
      [] c = "L" -> "l"
      [] c = "I" -> "i"
      [] c = "S" -> "s"
      [] c = "H" -> "h"
      [] OTHER -> c

ToLowerCase(s) == [i \in DOMAIN s |-> LowerChar(s[i])]

\* JavaScript truthiness of a string-or-undefined value
Truthy(s) == s # UNDEFINED /\ s # EmptyStr

IsSpace(c) == c = " "

RECURSIVE TrimStart(_)
TrimStart(s) ==
    IF s = <<>> THEN <<>>
    ELSE IF IsSpace(Head(s)) THEN TrimStart(Tail(s)) ELSE s

RECURSIVE TrimEnd(_)
TrimEnd(s) ==
    IF s = <<>> THEN <<>>
    ELSE IF IsSpace(s[Len(s)]) THEN TrimEnd(SubSeq(s, 1, Len(s) - 1)) ELSE s

Trim(s) == TrimEnd(TrimStart(s))

RECURSIVE Digits(_)
Digits(n) == IF n < 10 THEN 1 ELSE 1 + Digits(n \div 10)

Min(a, b) == IF a < b THEN a ELSE b
Max(a, b) == IF a > b THEN a ELSE b
CeilDiv(a, b) == (a + b - 1) \div b

----------------------------------------------------------------------------
\* The dataset: India.csv with the columns id,tweet

Headers == <<"id", "tweet">>
HeaderLens == <<2, 5>>

RowOf(i, n) == [id |-> <<ToString(i)>>, tweetLen |-> n]

\* files of up to MaxDataRows rows whose tweets are all short or all huge
Datasets ==
    { [i \in 1..k |-> RowOf(i, n)] : k \in 0..MaxDataRows, n \in {SmallLen, BigLen} }

\* Object.values(row): the lengths of the row's cells, in column order
ValueLens(row) == <<Len(row.id), row.tweetLen>>

RECURSIVE SumSeq(_)
SumSeq(s) == IF s = <<>> THEN 0 ELSE Head(s) + SumSeq(Tail(s))

\* Array.prototype.join: length of the joined string for a separator of length sep
JoinLen(lens, sep) ==
    IF lens = <<>> THEN 0 ELSE SumSeq(lens) + sep * (Len(lens) - 1)

\* Array.prototype.slice(start, end)
Slice(s, start, end) ==
    LET n == Len(s)
        from == IF start < 0 THEN Max(n + start, 0) ELSE Min(start, n)
        to == IF end < 0 THEN Max(n + end, 0) ELSE Min(end, n)
    IN  IF from >= to THEN <<>> ELSE SubSeq(s, from + 1, to)

EndIndexNoOffset(start, max, n) == Min(max, n)

EndIndex(start, max, n) == Min(start + max, n)

parseCsvNoEmptyCheck(exists, data, start, max) ==
    IF ~exists THEN [ok |-> FALSE, error |-> "CSV file not found.",
                     rows |-> <<>>, sampleRows |-> <<>>]
    ELSE [ok |-> TRUE, error |-> "none", rows |-> data,
          sampleRows |-> Slice(data, start, EndIndex(start, max, Len(data)))]

\* parseCsv: the outcome for a file that exists or not and holds the rows
parseCsv(exists, data, start, max) ==
    IF ~exists THEN [ok |-> FALSE, error |-> "CSV file not found.",
                     rows |-> <<>>, sampleRows |-> <<>>]
    ELSE IF Len(data) = 0 THEN [ok |-> FALSE, error |-> "CSV file is empty.",
                                rows |-> <<>>, sampleRows |-> <<>>]
    ELSE [ok |-> TRUE, error |-> "none", rows |-> data,
          sampleRows |-> Slice(data, start, EndIndex(start, max, Len(data)))]

estimateTokens(length) == CeilDiv(length, CharsPerToken) + TokenBuffer

----------------------------------------------------------------------------
\* Prompt payloads (lengths in characters)

CompactCsvFixedLen == 57
CompactCsvTailLen == 62
CountTemplateLen == 324
MultiTemplateLen == 1253
TrendsTemplateLen == 385
InsightsTemplateLen == 223
SummaryTemplateLen == 206
IdPrefixLen == 4
TextPrefixLen == 9

\* sampleRows.map((row) => Object.values(row).join(',')).join('\n')
SampleCsvLen(sample) ==
    JoinLen([i \in DOMAIN sample |-> JoinLen(ValueLens(sample[i]), 1)], 1)

\* compactCsv of the analyze route: header line, one quoted line per row, trailer
CompactCsvLen(all, sample) ==
    CompactCsvFixedLen + JoinLen(HeaderLens, 1) + Digits(Len(sample)) + Digits(Len(all))
    + SumSeq([i \in DOMAIN sample |->
                JoinLen([j \in DOMAIN ValueLens(sample[i]) |-> ValueLens(sample[i])[j] + 2], 1)
                + 1])
    + CompactCsvTailLen + Digits(Len(all))

\* tweetDataString of the per-tweet route: "ID: <id> | TEXT: <tweet>" per row
TweetDataLen(sample) ==
    JoinLen([i \in DOMAIN sample |->
               IdPrefixLen + Len(sample[i].id) + TextPrefixLen + sample[i].tweetLen], 1)

\* Length of the text the route renders from the sample for generateContent
\* (compactCsv in the analyze route, the prompt text in the others)
PayloadLen(r, all, sample) ==
    CASE r = "analyze" -> CompactCsvLen(all, sample)
      [] r = "count" -> CountTemplateLen + Digits(Len(all)) + SampleCsvLen(sample)
      [] r = "multi" -> MultiTemplateLen + Digits(Len(sample)) + TweetDataLen(sample)
      [] r = "trends" -> TrendsTemplateLen + SampleCsvLen(sample)
      [] r = "insights" -> InsightsTemplateLen + SampleCsvLen(sample)
      [] r = "summary" -> SummaryTemplateLen + SampleCsvLen(sample)

\* Object.keys(sampleRows[0]).length
ColumnCount(sample) == Len(Headers)

\* Math.floor((MAX_TOKENS * 4) / columns / 10)
SuggestedRows(sample) == ((MAX_TOKENS * CharsPerToken) \div ColumnCount(sample)) \div 10

----------------------------------------------------------------------------
\* JSON values, errors and responses

NoMeta == [fullRows |-> -1, sampledRows |-> -1, estimatedTokens |-> -1]

NoBody == [kind |-> "none", has |-> FALSE, items |-> <<>>, count |-> -1, metadata |-> NoMeta]

JsonNull == [kind |-> "null", has |-> FALSE, items |-> <<>>, count |-> -1, metadata |-> NoMeta]

\* An object; has: whether the task's required fields are present; items: the
\* task's array (insights, trends, sentiments) or the one summary text
JsonObj(has, items) ==
    [kind |-> "object", has |-> has, items |-> items, count |-> -1, metadata |-> NoMeta]

Err(code, status, message) == [code |-> code, status |-> status, message |-> message]

NoError == Err("none", 0, "none")

Resp(status, error, details, body) ==
    [status |-> status, error |-> error, details |-> details, body |-> body, suggest |-> -1]

Ok(body) == Resp(200, "none", "none", body)

\* error.message.includes(needle): a message is kept as the marker it carries
Includes(message, needle) == message = needle

handleError(error) ==
    IF error.code = "ENOENT"
    THEN Resp(404, "India.csv file not found.", "none", NoBody)
    ELSE IF Includes(error.message, "token count exceeds")
    THEN Resp(400, "Input too large for model.", "none", NoBody)
    ELSE IF error.status = 400 /\ Includes(error.message, "response_schema")
    THEN Resp(400, "Schema validation failed", error.message, NoBody)
    ELSE Resp(500, "Failed to process CSV file with Gemini API.", error.message, NoBody)

\* the catch block of the trends route
trendsError(error) == Resp(500, "Internal Server Error", error.message, NoBody)

SyntaxError == Err("none", 0, "SyntaxError")
TypeError == Err("none", 0, "TypeError")

----------------------------------------------------------------------------
\* The Gemini service as a stub: every answer generateContent can give

ServiceErrors ==
    { Err("none", 0, "fetch failed"),
      Err("none", 400, "token count exceeds"),
      Err("none", 400, "response_schema") }

FieldTexts == { <<"a">>, <<"b">>, <<"c">>, EmptyStr }

SeqsUpTo(S, n) == UNION { [1..k -> S] : k \in 0..n }

TrendItems == [title : { <<"a">>, <<"b">> }, description : { <<"c">>, EmptyStr }]

SentimentItems(sample) ==
    [id : { sample[i].id : i \in DOMAIN sample } \cup { <<"9">> },
     sentiment_score : {0, 1, 5, 6}]

ItemsOf(r, sample) ==
    CASE r = "insights" -> SeqsUpTo(FieldTexts, MaxItems)
      [] r = "summary" -> { <<t>> : t \in FieldTexts }
      [] r = "trends" -> SeqsUpTo(TrendItems, MaxTrends)
      [] r = "multi" -> SeqsUpTo(SentimentItems(sample), MaxSentiments)
      [] OTHER -> { <<>> }

\* result.text: form "empty" is '', "garbage" is text JSON.parse rejects
GenText(form, has, items) == [form |-> form, has |-> has, items |-> items]

GenTexts(r, sample) ==
    { GenText("empty", FALSE, <<>>), GenText("garbage", FALSE, <<>>),
      GenText("null", FALSE, <<>>), GenText("object", FALSE, <<>>) }
    \cup { GenText("object", TRUE, it) : it \in ItemsOf(r, sample) }

NoReply == [kind |-> "none", error |-> NoError, text |-> GenText("empty", FALSE, <<>>)]

NoCall == [kind |-> "none", text |-> EmptyStr]

GenReplies(r, sample) ==
    { [kind |-> "throw", error |-> e, text |-> GenText("empty", FALSE, <<>>)]
        : e \in ServiceErrors }
    \cup { [kind |-> "notext", error |-> NoError, text |-> GenText("empty", FALSE, <<>>)] }
    \cup { [kind |-> "text", error |-> NoError, text |-> t] : t \in GenTexts(r, sample) }

\* !responseText
FalsyText(reply) == reply.kind = "notext" \/ reply.text.form = "empty"

\* JSON.parse(responseText): undefined, '' and garbage throw a SyntaxError
JSONParse(reply) ==
    IF reply.kind = "notext" \/ reply.text.form \in {"empty", "garbage"}
    THEN [ok |-> FALSE, value |-> NoBody]
    ELSE IF reply.text.form = "null" THEN [ok |-> TRUE, value |-> JsonNull]
    ELSE [ok |-> TRUE, value |-> JsonObj(reply.text.has, reply.text.items)]

UpperChar(c) == CASE c = "a" -> "A" [] c = "b" -> "B" [] c = "c" -> "C" [] OTHER -> c

\* the translation the service gives for a text
Translation(t) == [i \in DOMAIN t |-> UpperChar(t[i])]

TransReplies(t) ==
    { [kind |-> "throw", text |-> EmptyStr],
      [kind |-> "notext", text |-> EmptyStr],
      [kind |-> "text", text |-> EmptyStr],
      [kind |-> "text", text |-> Translation(t)],
      [kind |-> "text", text |-> <<" ">> \o Translation(t) \o <<" ">>] }

----------------------------------------------------------------------------
\* translateText and the translation stage

PENDING == <<"pending">>

IsNativeCaseSensitive(lang) == lang = English

\* targetLanguage.toLowerCase() === 'english'
IsNative(lang) == ToLowerCase(lang) = English

\* req.query.lang || 'english'
EffectiveLang(q) == IF Truthy(q) THEN q ELSE English

\* whether the route runs its translation stage for req.query.lang
WantsTranslation(r, q) ==
    CASE r = "trends" -> Truthy(q) /\ ~IsNative(q)
      [] r \in {"insights", "summary"} -> ~IsNative(EffectiveLang(q))
      [] OTHER -> FALSE

\* translateText gets past its first guard and calls the service
NeedsCall(text, lang) == ~(~Truthy(text) \/ IsNative(lang))

translateResultNoFallback(text, reply) ==
    IF reply.kind = "text" THEN Trim(reply.text) ELSE EmptyStr

\* what translateText returns once the service has answered: result.text.trim(),
\* or the original text when the call threw or result.text is undefined
translateResult(text, reply) ==
    IF reply.kind = "text" THEN Trim(reply.text) ELSE text

ReissuedOnFailure(i, reply) == IF reply.kind = "text" THEN {} ELSE {i}

\* the calls translateText issues again for field i once its call has settled:
\* the catch block returns the text, nothing is re-attempted
Reissued(i, reply) == {}

PlaceByArrival(res, i, v) ==
    LET open == { j \in DOMAIN res : res[j] = PENDING }
        first == CHOOSE j \in open : \A k \in open : j <= k
    IN  [res EXCEPT ![first] = v]

\* the value of call i lands at position i of the assembled array
Place(res, i, v) == [res EXCEPT ![i] = v]

\* trendsResult.trends as the sequence title, description, title, ...
Flatten(items) ==
    [k \in 1..(2 * Len(items)) |->
        IF k % 2 = 1 THEN items[(k + 1) \div 2].title ELSE items[k \div 2].description]

Unflatten(res) ==
    [k \in 1..(Len(res) \div 2) |-> [title |-> res[2 * k - 1], description |-> res[2 * k]]]

\* the fields the route hands to translateText
FieldsOf(r, value) ==
    CASE r = "trends" -> Flatten(value.items)
      [] r = "insights" -> value.items
      [] r = "summary" -> IF value.has THEN value.items ELSE <<UNDEFINED>>

\* the body sent once every field is back
TranslatedBody(r, value, res) ==
    CASE r = "trends" -> [value EXCEPT !.items = Unflatten(res)]
      [] r = "insights" -> JsonObj(TRUE, res)
      [] r = "summary" ->
            IF res[1] = UNDEFINED THEN JsonObj(FALSE, <<>>) ELSE JsonObj(TRUE, res)

\* the index of the first field from i on whose translateText calls the service, or 0
NextCallIndex(f, i, lang) ==
    LET need == { j \in i..Len(f) : NeedsCall(f[j], lang) }
    IN  IF need = {} THEN 0 ELSE CHOOSE j \in need : \A k \in need : j <= k

Concurrent(r) == r = "insights"

----------------------------------------------------------------------------
\* The handlers

RespondAndGoOn(r) ==
    /\ responses' = Append(responses, r)
    /\ pc' = pc

\* res.json(...) or res.status(...).json(...), after which the handler returns
Respond(r) ==
    /\ responses' = Append(responses, r)
    /\ pc' = "done"

RouteMaxRows(r) == IF r = "analyze" THEN AnalyzeMaxRows ELSE MAX_ROWS

RunInit ==
    /\ pc = "start"
    /\ rows = <<>>
    /\ sampleRows = <<>>
    /\ estimatedTokens = 0
    /\ genCalls = 0
    /\ parsed = NoBody
    /\ fields = <<>>
    /\ results = <<>>
    /\ pending = {}
    /\ outcomes = <<>>
    /\ outOfOrder = FALSE
    /\ genReply = NoReply
    /\ transCalls = 0
    /\ fieldCalls = <<>>
    /\ responses = <<>>

Init ==
    /\ route \in Routes
    /\ fileExists \in BOOLEAN
    /\ fileRows \in (IF fileExists THEN Datasets ELSE { <<>> })
    /\ queryLang \in (IF route \in {"trends", "insights", "summary"} THEN Langs
                      ELSE { UNDEFINED })
    /\ startingIndex = START_INDEX
    /\ maxRows = RouteMaxRows(route)
    /\ RunInit

\* the catch block of the route
RouteError(error) == IF route = "trends" THEN trendsError(error) ELSE handleError(error)

\* GET /analyze-india-csv: existence check, read, empty check, sampling
AnalyzeLoad ==
    /\ pc = "start"
    /\ route = "analyze"
    /\ IF ~fileExists
       THEN /\ Respond(Resp(404, "India.csv file not found.", "none", NoBody))
            /\ UNCHANGED <<rows, sampleRows>>
       ELSE IF Len(fileRows) = 0
       THEN /\ Respond(Resp(400, "CSV file is empty.", "none", NoBody))
            /\ rows' = fileRows
            /\ UNCHANGED sampleRows
       ELSE /\ rows' = fileRows
            /\ sampleRows' = Slice(fileRows, 0, maxRows)
            /\ pc' = "loaded"
            /\ UNCHANGED responses
    /\ UNCHANGED <<route, fileExists, fileRows, queryLang, startingIndex, maxRows,
                   estimatedTokens, genCalls, parsed, fields, results, pending,
                   outcomes, outOfOrder, genReply, transCalls, fieldCalls>>

\* GET /analyze-india-csv: compactCsv, the token budget guard, then generateContent
AnalyzeBudget ==
    /\ pc = "loaded"
    /\ route = "analyze"
    /\ estimatedTokens' = estimateTokens(CompactCsvLen(rows, sampleRows))
    /\ IF estimatedTokens' > MAX_TOKENS
       THEN /\ Respond([Resp(400, "CSV too large", "none", NoBody)
                          EXCEPT !.suggest = SuggestedRows(sampleRows)])
            /\ UNCHANGED genCalls
       ELSE /\ genCalls' = genCalls + 1
            /\ pc' = "awaitGen"
            /\ UNCHANGED responses
    /\ UNCHANGED <<route, fileExists, fileRows, queryLang, startingIndex, maxRows, rows,
                   sampleRows, parsed, fields, results, pending, outcomes, outOfOrder,
                   genReply, transCalls, fieldCalls>>

\* the other routes: await parseCsv(csvFilePath, START_INDEX, MAX_ROWS)
Load ==
    /\ pc = "start"
    /\ route # "analyze"
    /\ LET r == parseCsv(fileExists, fileRows, startingIndex, maxRows)
       IN  IF r.ok
           THEN /\ rows' = r.rows
                /\ sampleRows' = r.sampleRows
                /\ pc' = "loaded"
                /\ UNCHANGED responses
           ELSE /\ Respond(RouteError(Err("none", 0, r.error)))
                /\ UNCHANGED <<rows, sampleRows>>
    /\ UNCHANGED <<route, fileExists, fileRows, queryLang, startingIndex, maxRows,
                   estimatedTokens, genCalls, parsed, fields, results, pending,
                   outcomes, outOfOrder, genReply, transCalls, fieldCalls>>

\* the other routes: build the prompt and call ai.models.generateContent
Generate ==
    /\ pc = "loaded"
    /\ route # "analyze"
    /\ genCalls' = genCalls + 1
    /\ pc' = "awaitGen"
    /\ UNCHANGED <<route, fileExists, fileRows, queryLang, startingIndex, maxRows, rows,
                   sampleRows, estimatedTokens, parsed, fields, results, pending,
                   outcomes, outOfOrder, genReply, transCalls, fieldCalls, responses>>

NoTranslation ==
    UNCHANGED <<fields, results, pending, outcomes, outOfOrder, transCalls, fieldCalls>>

\* the error text of the route's catch around JSON.parse
InvalidJson(r) ==
    IF r = "multi" THEN "Gemini returned invalid JSON format. Check raw output."
    ELSE "Gemini returned invalid JSON format."

\* what the checking routes send for a parsed value v: analyze attaches the
\* metadata (a TypeError on null), count sends v, multi sends {count, ...v}
Success(r, v) ==
    CASE r = "analyze" ->
            IF v.kind = "null" THEN handleError(TypeError)
            ELSE Ok([v EXCEPT !.metadata =
                       [fullRows |-> Len(rows), sampledRows |-> Len(sampleRows),
                        estimatedTokens |-> estimatedTokens]])
      [] r = "multi" ->
            Ok([(IF v.kind = "null" THEN JsonObj(FALSE, <<>>) ELSE v)
                  EXCEPT !.count = Len(sampleRows)])
      [] OTHER -> Ok(v)

\* the response of the routes that check for an empty and an unparsable result
Checked(reply) ==
    IF reply.kind = "throw" THEN handleError(reply.error)
    ELSE IF FalsyText(reply) THEN Resp(500, "Gemini returned empty response.", "none", NoBody)
    ELSE IF ~JSONParse(reply).ok THEN Resp(500, InvalidJson(route), "SyntaxError", NoBody)
    ELSE Success(route, JSONParse(reply).value)

\* after generateContent in the routes that validate the result
CheckedReturns ==
    /\ \E reply \in GenReplies(route, sampleRows) :
         /\ genReply' = reply
         /\ parsed' = JSONParse(reply).value
         /\ Respond(Checked(reply))
    /\ NoTranslation
    /\ UNCHANGED <<route, fileExists, fileRows, queryLang, startingIndex, maxRows, rows,
                   sampleRows, estimatedTokens, genCalls>>

\* GET /analyze-india-csv after generateContent: validate, attach metadata, respond
AnalyzeReturns ==
    /\ pc = "awaitGen"
    /\ route = "analyze"
    /\ CheckedReturns

\* GET /count-sentiment-india-csv after generateContent
CountReturns ==
    /\ pc = "awaitGen"
    /\ route = "count"
    /\ CheckedReturns

\* GET /analyze-multiple-tweets-sentiment after generateContent
MultiReturns ==
    /\ pc = "awaitGen"
    /\ route = "multi"
    /\ CheckedReturns

\* the translation stage begins: the calls that are issued before the handler
\* suspends again (all of them under Promise.all, the first one in a loop)
StartTranslation(value, lang) ==
    LET f == FieldsOf(route, value)
        need == { i \in DOMAIN f : NeedsCall(f[i], lang) }
        first == NextCallIndex(f, 1, lang)
        issued == IF Concurrent(route) THEN need
                  ELSE IF first = 0 THEN {} ELSE {first}
        res == [i \in DOMAIN f |-> IF i \in need THEN PENDING ELSE f[i]]
    IN  /\ fields' = f
        /\ results' = res
        /\ pending' = issued
        /\ outcomes' = [i \in DOMAIN f |-> NoCall]
        /\ UNCHANGED outOfOrder
        /\ transCalls' = transCalls + Cardinality(issued)
        /\ fieldCalls' = [i \in DOMAIN f |-> IF i \in issued THEN 1 ELSE 0]
        /\ IF issued = {}
           THEN Respond(Ok(TranslatedBody(route, value, res)))
           ELSE pc' = "awaitTrans" /\ UNCHANGED responses

\* the routes that hand result.text straight to JSON.parse
Unchecked(reply) ==
    LET p == JSONParse(reply)
        lang == IF route = "trends" THEN queryLang ELSE EffectiveLang(queryLang)
    IN  IF reply.kind = "throw"
        THEN Respond(RouteError(reply.error)) /\ NoTranslation /\ UNCHANGED parsed
        ELSE IF ~p.ok
        THEN Respond(RouteError(SyntaxError)) /\ NoTranslation /\ UNCHANGED parsed
        ELSE /\ parsed' = p.value
             /\ IF route # "trends" /\ p.value.kind = "null"
                THEN Respond(RouteError(TypeError)) /\ NoTranslation
                ELSE IF ~WantsTranslation(route, queryLang)
                THEN /\ Respond(Ok(IF route = "trends" THEN p.value
                                   ELSE JsonObj(p.value.has, p.value.items)))
                     /\ NoTranslation
                ELSE IF route # "summary" /\ (p.value.kind = "null" \/ ~p.value.has)
                THEN Respond(RouteError(TypeError)) /\ NoTranslation
                ELSE StartTranslation(p.value, lang)

\* GET /analyze-trends-india-csv after generateContent
TrendsReturns ==
    /\ pc = "awaitGen"
    /\ route = "trends"
    /\ \E reply \in GenReplies(route, sampleRows) :
         genReply' = reply /\ Unchecked(reply)
    /\ UNCHANGED <<route, fileExists, fileRows, queryLang, startingIndex, maxRows, rows,
                   sampleRows, estimatedTokens, genCalls>>

\* GET /generate-insights-india-csv after generateContent
InsightsReturns ==
    /\ pc = "awaitGen"
    /\ route = "insights"
    /\ \E reply \in GenReplies(route, sampleRows) :
         genReply' = reply /\ Unchecked(reply)
    /\ UNCHANGED <<route, fileExists, fileRows, queryLang, startingIndex, maxRows, rows,
                   sampleRows, estimatedTokens, genCalls>>

\* GET /generate-summary-india-csv after generateContent
SummaryReturns ==
    /\ pc = "awaitGen"
    /\ route = "summary"
    /\ \E reply \in GenReplies(route, sampleRows) :
         genReply' = reply /\ Unchecked(reply)
    /\ UNCHANGED <<route, fileExists, fileRows, queryLang, startingIndex, maxRows, rows,
                   sampleRows, estimatedTokens, genCalls>>

\* one translateText call settles; in a loop the next call is issued, and once
\* no call is left the response is sent
TranslateReturns ==
    /\ pc = "awaitTrans"
    /\ \E i \in pending : \E reply \in TransReplies(fields[i]) :
         LET lang == IF route = "trends" THEN queryLang ELSE EffectiveLang(queryLang)
             res == Place(results, i, translateResult(fields[i], reply))
             nxt == IF Concurrent(route) THEN 0 ELSE NextCallIndex(fields, i + 1, lang)
             calls == (IF nxt = 0 THEN {} ELSE {nxt}) \cup Reissued(i, reply)
             left == (pending \ {i}) \cup calls
         IN  /\ results' = res
             /\ outcomes' = [outcomes EXCEPT ![i] = [reply EXCEPT !.text = Trim(@)]]
             /\ outOfOrder' = (outOfOrder \/ \E j \in pending : j < i)
             /\ pending' = left
             /\ transCalls' = transCalls + Cardinality(calls)
             /\ fieldCalls' = [j \in DOMAIN fieldCalls |->
                                 fieldCalls[j] + (IF j \in calls THEN 1 ELSE 0)]
             /\ IF left = {}
                THEN Respond(Ok(TranslatedBody(route, parsed, res)))
                ELSE UNCHANGED <<pc, responses>>
    /\ UNCHANGED <<route, fileExists, fileRows, queryLang, startingIndex, maxRows, rows,
                   sampleRows, estimatedTokens, genCalls, parsed, fields, genReply>>

Next ==
    \/ AnalyzeLoad
    \/ AnalyzeBudget
    \/ Load
    \/ Generate
    \/ AnalyzeReturns
    \/ CountReturns
    \/ MultiReturns
    \/ TrendsReturns
    \/ InsightsReturns
    \/ SummaryReturns
    \/ TranslateReturns

Spec == Init /\ [][Next]_vars

----------------------------------------------------------------------------
\* parseCsv on its own: every dataset, starting index and window

SamplerInit ==
    /\ route \in Routes
    /\ fileExists = TRUE
    /\ fileRows \in Datasets
    /\ queryLang = UNDEFINED
    /\ startingIndex \in (IF route = "analyze" THEN {0} ELSE 0..MaxOffset)
    /\ maxRows \in (IF route = "analyze" THEN {AnalyzeMaxRows} ELSE 0..MaxWindow)
    /\ RunInit

SamplerNext == Load \/ AnalyzeLoad

SamplerSpec == SamplerInit /\ [][SamplerNext]_vars

----------------------------------------------------------------------------
\* Properties

Done == pc = "done"

Answer == responses[Len(responses)]

IsBudgetExceeded(r) == r.status = 400 /\ r.error = "CSV too large"

IsEmptyOutput(r) == r.status = 500 /\ r.error = "Gemini returned empty response."

TranslationRoutes == {"trends", "insights", "summary"}

\* what position i of the translated output has to hold, given the service's answer
Expected(i) ==
    CASE outcomes[i].kind = "text" -> outcomes[i].text
      [] OTHER -> fields[i]

\* C1: in every route, a payload whose estimate exceeds MAX_TOKENS is never sent to
\* generateContent, and the run ends with the "CSV too large" rejection.
C1_BudgetGuardEveryRoute ==
    (sampleRows # <<>> /\ estimateTokens(PayloadLen(route, rows, sampleRows)) > MAX_TOKENS)
        => /\ genCalls = 0
           /\ Done => (Len(responses) = 1 /\ IsBudgetExceeded(Answer))

C3_OrderPreserved ==
    /\ Len(results) = Len(fields)
    /\ \A i \in DOMAIN outcomes : outcomes[i].kind # "none" => results[i] = Expected(i)
    /\ (Done /\ fields # <<>>)
          => LET out == FieldsOf(route, Answer.body)
             IN  /\ Len(out) = Len(fields)
                 /\ \A i \in DOMAIN fields : out[i] = Expected(i)

C3_Witness ==
    /\ Done
    /\ route = "insights"
    /\ outOfOrder
    /\ fields = << <<"a">>, <<"b">>, <<"c">> >>
    /\ \A i \in 1..3 : outcomes[i].kind = "text"
    /\ Answer.body.items = << <<"A">>, <<"B">>, <<"C">> >>

\* req.query.lang is absent, empty or 'english' in any letter case
NativeRequest == ~Truthy(queryLang) \/ ToLowerCase(queryLang) = English

\* C4: for an absent, empty or case-insensitively native target language the
\* translating routes issue no translateText call to the service and send the
\* text fields of the parsed result unchanged.
C4_TranslatorNoOp ==
    (route \in TranslationRoutes /\ NativeRequest)
        => /\ transCalls = 0
           /\ pc # "awaitTrans"
           /\ (Done /\ Answer.status = 200)
                 => FieldsOf(route, Answer.body) = FieldsOf(route, parsed)

C4_Witness ==
    /\ Done
    /\ route = "trends"
    /\ queryLang = <<"E", "N", "G", "L", "I", "S", "H">>
    /\ Answer.status = 200
    /\ parsed.items # <<>>
    /\ Answer.body.items = parsed.items
    /\ transCalls = 0

EmptyReply ==
    genReply.kind = "notext" \/ (genReply.kind = "text" /\ genReply.text.form = "empty")

\* C5: in every route a generation result without text ends the run with the
\* "Gemini returned empty response." failure.
C5_EmptyOutputDistinct ==
    (Done /\ EmptyReply) => (Len(responses) = 1 /\ IsEmptyOutput(Answer))

\* C6: in every route a generation result that parses but lacks the task's
\* required field never leads to a 200 response.
C6_NoPartialSuccess ==
    (Done /\ genReply.kind = "text" /\ genReply.text.form = "object" /\ ~genReply.text.has)
        => Answer.status # 200

\* C7: parseCsv with 0 <= startingIndex < |rows| returns as sampleRows the
\* min(maxRows, |rows| - startingIndex) records from startingIndex on, in file
\* order, and returns the rows of the file unchanged.
C7_SamplerWindow ==
    (pc = "loaded" /\ Len(fileRows) > 0 /\ 0 <= startingIndex
       /\ startingIndex < Len(fileRows) /\ maxRows >= 0)
        => LET n == Min(maxRows, Len(fileRows) - startingIndex)
           IN  /\ Len(sampleRows) = n
               /\ \A k \in 1..n : sampleRows[k] = fileRows[startingIndex + k]
               /\ rows = fileRows

C7_Witness ==
    /\ pc = "loaded"
    /\ Len(fileRows) = 2
    /\ startingIndex = 1
    /\ maxRows = 3
    /\ sampleRows = <<fileRows[2]>>

\* C8: a run whose sample has no record issues no generateContent call, neither
\* for the analysis nor for a translation, and ends with an error response.
C8_EmptySampleRejected ==
    (pc # "start" /\ sampleRows = <<>>)
        => /\ genCalls = 0
           /\ transCalls = 0
           /\ Done => (Len(responses) = 1 /\ Answer.status # 200)

C8_Witness ==
    /\ Done
    /\ route = "multi"
    /\ fileExists
    /\ fileRows = <<>>
    /\ sampleRows = <<>>
    /\ genCalls = 0
    /\ Answer.status = 500

\* C9: every 200 response of the per-tweet route carries one score per sampled
\* row: as many sentiments as rows, every row id exactly once, no other id, and
\* every sentiment_score in 1..5.
C9_OneScorePerRecord ==
    (Done /\ route = "multi" /\ Answer.status = 200)
        => LET it == Answer.body.items
               ids == { sampleRows[i].id : i \in DOMAIN sampleRows }
           IN  /\ Len(it) = Len(sampleRows)
               /\ \A id \in ids : Cardinality({ k \in DOMAIN it : it[k].id = id }) = 1
               /\ \A k \in DOMAIN it : it[k].id \in ids /\ it[k].sentiment_score \in 1..5

\* C10: the row count suggested by the "CSV too large" rejection is smaller than
\* the number of rows of the rejected sample.
C10_SuggestionSmaller ==
    (Done /\ IsBudgetExceeded(Answer)) => Answer.suggest < Len(sampleRows)

\* C11: every 200 response carries the metadata set by the handler: the number
\* of rows of the file, the number of sampled rows and the token estimate of the
\* run's payload.
C11_ProvenanceAttached ==
    (Done /\ Answer.status = 200)
        => Answer.body.metadata =
              [fullRows |-> Len(rows), sampledRows |-> Len(sampleRows),
               estimatedTokens |-> estimateTokens(PayloadLen(route, rows, sampleRows))]

\* C12: a run issues at most one generateContent call for the analysis and at
\* most one per translated field; once the analysis call has failed the run is
\* over without a further call, and a field whose call failed keeps its original
\* text with no call in flight for it.
C12_NoRetry ==
    /\ genCalls <= 1
    /\ \A i \in DOMAIN fieldCalls : fieldCalls[i] <= 1
    /\ transCalls = Cardinality({ i \in DOMAIN fieldCalls : fieldCalls[i] = 1 })
    /\ genReply.kind = "throw" => (Done /\ genCalls = 1 /\ transCalls = 0)
    /\ \A i \in DOMAIN outcomes :
          outcomes[i].kind \in {"throw", "notext"}
              => (i \notin pending /\ fieldCalls[i] = 1 /\ results[i] = fields[i])

C12_Witness ==
    /\ Done
    /\ route = "trends"
    /\ Len(fields) = 2
    /\ outcomes[1].kind = "throw"
    /\ outcomes[2].kind = "text"
    /\ fieldCalls = <<1, 1>>
    /\ genCalls = 1
    /\ transCalls = 2

\* the response the route sends when generateContent fails with a network error
ServiceFailure == RouteError(Err("none", 0, "fetch failed"))

SameKind(r, q) == r.status = q.status /\ r.error = q.error

\* C13: a run on a missing file ends with the 404 "file not found" response and
\* a run on a file without rows with the "CSV file is empty." response, neither
\* being the response of a failed generation call, and no generateContent call
\* is made.
C13_LoaderFailuresDistinct ==
    /\ (Done /\ ~fileExists)
          => /\ Answer.status = 404
             /\ Answer.error = "India.csv file not found."
             /\ ~SameKind(Answer, ServiceFailure)
             /\ genCalls = 0
    /\ (Done /\ fileExists /\ fileRows = <<>>)
          => /\ Answer.error = "CSV file is empty."
             /\ ~SameKind(Answer, ServiceFailure)
             /\ genCalls = 0

\* C14: a handler sends at most one response, it has sent exactly one when it
\* is over, it is never stuck before that, and once the response is sent no call
\* is in flight and no further step (call or response) is taken.
C14_ExactlyOneResponse ==
    /\ Len(responses) <= 1
    /\ Done <=> Len(responses) = 1
    /\ ~Done => ENABLED Next
    /\ Done => (pending = {} /\ ~ENABLED Next)

C14_Witness ==
    /\ Done
    /\ route = "insights"
    /\ Len(responses) = 1
    /\ genCalls = 1
    /\ transCalls = 3
    /\ \E i \in DOMAIN outcomes : outcomes[i].kind = "throw"
    /\ \E i \in DOMAIN outcomes : outcomes[i].kind = "text"
    /\ Answer.status = 200

====
